---- MODULE Spec2Model ----
(***************************************************************************)
(* Model of the concurrent scan orchestrator of the port scanner           *)
(* (scanner.py: PortScanner) together with the entry check of the GUI      *)
(* (gui.py: MainWindow.start_scan).                                        *)
(*                                                                         *)
(* The scanning thread is modelled statement by statement (pc), the worker *)
(* pool of ThreadPoolExecutor by the status of each future, and stop() as  *)
(* an action of another thread that may happen between any two statements. *)
(* Wall-clock values (started_ms, ended_ms, latency_ms) are left out: no   *)
(* branch of the code reads them.  The callbacks on_result/on_progress are *)
(* supplied and return normally; their invocations are logged.             *)
(***************************************************************************)
EXTENDS Integers, Sequences, FiniteSets, TLC

\* ---------------------------------------------------------------- bounds
MaxTargets == 2
MaxPorts == 2
MaxWorkers == 2
MaxUnits == 4
MaxSummaryPorts == 11

\* Host names are opaque keys of the orchestrator.
HostNames == <<"h1", "h2", "h3", "h4">>

Max(a, b) == IF a >= b THEN a ELSE b

RECURSIVE SeqMax(_)
SeqMax(s) == IF s = <<>> THEN 0 ELSE Max(s[Len(s)], SeqMax(SubSeq(s, 1, Len(s) - 1)))

SeqRange(s) == {s[i] : i \in 1..Len(s)}

\* Index patterns of length <= n over 1..n.
Patterns(n) == UNION {[1..k -> 1..n] : k \in 0..n}

\* Target lists up to renaming of hosts: a new host name is the next unused one.
TargetLists ==
    {[i \in 1..Len(s) |-> HostNames[s[i]]] :
        s \in {q \in Patterns(MaxTargets) :
                 \A i \in 1..Len(q) : q[i] <= SeqMax(SubSeq(q, 1, i - 1)) + 1}}

\* Port lists up to an order-preserving renaming: the values used are 1..k.
PortLists == {q \in Patterns(MaxPorts) : SeqRange(q) = 1..SeqMax(q)}

IsDupFree(s) == \A i, j \in 1..Len(s) : i # j => s[i] # s[j]
IsAscending(s) == \A i, j \in 1..Len(s) : i < j => s[i] < s[j]

\* ------------------------------------------------------------ the state
VARIABLES
    targets,          \* scan(): argument targets
    ports,            \* scan(): argument ports
    do_tcp,           \* scan(): argument do_tcp
    max_workers,      \* PortScanner.max_workers
    gui,              \* MainWindow.start_scan: "none" | "warn_hosts" | "warn_ports" | "worker"
    _stop,            \* PortScanner._stop
    pc,               \* position of the thread that runs scan()
    hi,               \* index of `host` in targets (outer loop)
    pi,               \* index of `p` in ports (inner loop)
    futs,             \* futs, each with the status of its work item in the pool
    yielded,          \* futures as_completed(futs) has handed to the loop
    cur,              \* `fut` of the draining loop (0: none)
    total,
    done,
    results,          \* ordered dict host -> ordered dict port -> {"tcp": info}
    summaries,
    onResultCalls,    \* log of on_result invocations
    onProgressCalls,  \* log of on_progress invocations
    atStop            \* history: what had been submitted/recorded when stop() first ran

vars == <<targets, ports, do_tcp, max_workers, gui, _stop, pc, hi, pi, futs,
          yielded, cur, total, done, results, summaries, onResultCalls,
          onProgressCalls, atStop>>

inputs == <<targets, ports, do_tcp, max_workers>>

\* ------------------------------------------------------- the probe (pure)
\* What socket.create_connection can do: connect, raise ConnectionRefusedError,
\* raise socket.timeout, raise another OSError (whose str() may be empty), or
\* raise an exception that is no OSError (UnicodeError for the host "a..b").
ConnectOutcomes ==
    {"connected", "refused", "timeout", "oserror", "oserror_nomsg", "other_exception"}

\* The connect outcomes the scans of the model meet: one per way the
\* orchestrator treats a completion (an open port, a port that is not open, a
\* worker failure).
ScanOutcomes == {"connected", "timeout", "other_exception"}

NoException == "none"

Info(state, err) == [proto |-> "tcp", state |-> state, error |-> err]

\* _tcp_probe(host, port) when the connect attempt ends as conn: the returned
\* tuple, or the exception that leaves the function.
_tcp_probe(host, port, conn) ==
    CASE conn = "connected"     -> [exc |-> NoException, value |-> <<host, port, Info("open", "")>>]
      [] conn = "refused"       -> [exc |-> NoException, value |-> <<host, port, Info("closed", "")>>]
      [] conn = "timeout"       -> [exc |-> NoException, value |-> <<host, port, Info("filtered", "")>>]
      [] conn = "oserror"       -> [exc |-> NoException, value |-> <<host, port, Info("error", "msg")>>]
      [] conn = "oserror_nomsg" -> [exc |-> NoException, value |-> <<host, port, Info("error", "")>>]
      [] OTHER                  -> [exc |-> "Exception", value |-> <<>>]

\* ------------------------------------------------ ordered dicts (Python dict)
\* A dict is the sequence of its items [key, val] in insertion order.
DictKeys(d) == {d[i].key : i \in 1..Len(d)}
DictIndex(d, k) == CHOOSE i \in 1..Len(d) : d[i].key = k
DictGet(d, k) == d[DictIndex(d, k)].val

\* d[k] = v: a present key keeps its position, a new key goes last.
DictSet(d, k, v) ==
    IF k \in DictKeys(d)
    THEN [d EXCEPT ![DictIndex(d, k)] = [key |-> k, val |-> v]]
    ELSE Append(d, [key |-> k, val |-> v])

\* d.setdefault(k, dflt)
SetDefault(d, k, dflt) == IF k \in DictKeys(d) THEN d ELSE Append(d, [key |-> k, val |-> dflt])

InitResultsEmpty(ts) == <<>>

\* {t: {} for t in targets}
RECURSIVE InitResults(_)
InitResults(ts) ==
    IF ts = <<>> THEN <<>>
    ELSE DictSet(InitResults(SubSeq(ts, 1, Len(ts) - 1)), ts[Len(ts)], <<>>)

StoreResultReplacesMap(res, host, port, info) ==
    DictSet(res, host, <<[key |-> port, val |-> <<[key |-> "tcp", val |-> info]>>]>>)

\* results.setdefault(host, {}).setdefault(port, {})["tcp"] = info
StoreResult(res, host, port, info) ==
    LET r1 == SetDefault(res, host, <<>>)
        pm1 == SetDefault(DictGet(r1, host), port, <<>>)
        entry == DictSet(DictGet(pm1, port), "tcp", info)
    IN  DictSet(r1, host, DictSet(pm1, port, entry))

\* v.get("tcp", {}).get("state")
TcpState(v) == IF "tcp" \in DictKeys(v) THEN DictGet(v, "tcp").state ELSE "None"

\* ------------------------------------------------------- summary (pure)
PortsInAnyState(ports_map, st) == [j \in 1..Len(ports_map) |-> ports_map[j].key]

\* [p for p, v in ports_map.items() if v.get("tcp", {}).get("state") == st]
RECURSIVE PortsInState(_, _)
PortsInState(ports_map, st) ==
    IF ports_map = <<>> THEN <<>>
    ELSE LET n == Len(ports_map)
             rest == PortsInState(SubSeq(ports_map, 1, n - 1), st)
         IN  IF TcpState(ports_map[n].val) = st THEN Append(rest, ports_map[n].key) ELSE rest

WarnMinFiltered == 5

HalfIntCeil(n) == (n + 1) \div 2

\* int(0.5 * n) for n >= 0
HalfInt(n) == n \div 2

WarnThreshold(n) == Max(WarnMinFiltered, HalfInt(n))

Advisory == "many TCP timeouts/filtered -> possible firewall"

HostSummary(h, ports_map) ==
    LET opens == PortsInState(ports_map, "open")
        filtered == PortsInState(ports_map, "filtered")
        warns == IF Len(filtered) >= WarnThreshold(Len(ports_map)) THEN <<Advisory>> ELSE <<>>
    IN  [host |-> h, open_tcp |-> opens, warnings |-> warns]

Summaries(res) == [i \in 1..Len(res) |-> HostSummary(res[i].key, res[i].val)]

\* ------------------------------------------------------------- helpers
TotalOfTargetsOnly(ts, ps) == Max(1, Len(ts))

\* total = max(1, len(targets)*len(ports))
Total(ts, ps) == Max(1, Len(ts) * Len(ps))

PoolCapacityPlusOne(mw) == mw + 1

\* ThreadPoolExecutor(max_workers=self.max_workers): that many worker threads,
\* each running one work item at a time.
PoolCapacity(mw) == mw

Running == {k \in 1..Len(futs) : futs[k].st = "running"}
Queued == {k \in 1..Len(futs) : futs[k].st = "queued"}
Finished == {k \in 1..Len(futs) : futs[k].st = "finished"}

SubmitNeverBreaks(flag) == FALSE

\* `if self._stop: break` of the submission loop (line 47)
SubmitBreak(flag) == flag

DrainNeverBreaks(flag) == FALSE

\* `if self._stop: break` of the draining loop (line 52)
DrainBreak(flag) == flag

\* `break` leaves the loop over ports: the loop over targets goes on with the next host.
AfterBreak(h) == h + 1

AfterFaultRetry == "fut_result"

AfterFaultAbort == "shutdown"

\* `continue` after a worker failure: back to as_completed for the next future.
AfterFault == "as_completed"

AfterStoreSkipsCallback == "incr_done"

\* After the store of line 59 comes the on_result call of lines 60-61.
AfterStore == "on_result"

\* The two for statements: the next (host, port) to handle from position (h, p) on,
\* or the end of both loops.
RECURSIVE NextUnit(_, _)
NextUnit(h, p) ==
    IF h > Len(targets) THEN [pc |-> "as_completed", hi |-> h, pi |-> p]
    ELSE IF p > Len(ports) THEN NextUnit(h + 1, 1)
    ELSE [pc |-> "check_stop", hi |-> h, pi |-> p]

NoSnapshot == [taken |-> FALSE, pc |-> "idle", futs |-> 0, stored |-> 0, done |-> 0, results |-> 0, progress |-> 0]

\* Number of (host, port) entries in results.
RECURSIVE Entries(_)
Entries(res) == IF res = <<>> THEN 0 ELSE Len(res[1].val) + Entries(Tail(res))

\* ---------------------------------------------------------------- Init
Init ==
    /\ targets \in TargetLists
    /\ ports \in PortLists
    /\ Len(targets) * Len(ports) <= MaxUnits
    \* lists with a repeated or out-of-order element: in the smaller scans only
    /\ (IsDupFree(targets) /\ IsAscending(ports)) \/ Len(targets) * Len(ports) <= MaxUnits \div 2
    /\ do_tcp \in BOOLEAN
    /\ max_workers \in 1..MaxWorkers
    /\ gui = "none"
    /\ _stop = FALSE
    /\ pc = "idle"
    /\ hi = 0
    /\ pi = 0
    /\ futs = <<>>
    /\ yielded = {}
    /\ cur = 0
    /\ total = 0
    /\ done = 0
    /\ results = <<>>
    /\ summaries = <<>>
    /\ onResultCalls = <<>>
    /\ onProgressCalls = <<>>
    /\ atStop = NoSnapshot

\* --------------------------------------------------------------- stop()
StopToggles(flag) == ~flag

\* def stop(self): self._stop = True
StopValue(flag) == TRUE

stop ==
    /\ _stop' = StopValue(_stop)
    /\ atStop' = IF atStop.taken THEN atStop
                 ELSE [taken |-> TRUE, pc |-> pc, futs |-> Len(futs), stored |-> Entries(results),
                       done |-> done, results |-> Len(onResultCalls),
                       progress |-> Len(onProgressCalls)]
    /\ UNCHANGED <<inputs, gui, pc, hi, pi, futs, yielded, cur, total, done, results,
                   summaries, onResultCalls, onProgressCalls>>

\* -------------------------------------------------------------- scan()
\* Lines 37-44: the locals, the pool, and the entry of the loops.
ScanEnter ==
    LET n == NextUnit(1, 1) IN
    /\ total' = Total(targets, ports)
    /\ done' = 0
    /\ results' = InitResults(targets)
    /\ summaries' = <<>>
    /\ futs' = <<>>
    /\ pc' = n.pc
    /\ hi' = n.hi
    /\ pi' = n.pi
    /\ UNCHANGED <<inputs, _stop, yielded, cur, onResultCalls, onProgressCalls, atStop>>

\* A direct call of scan() by a client of PortScanner.
scan ==
    /\ pc = "idle"
    /\ gui = "none"
    /\ ScanEnter
    /\ gui' = gui

StartScanCheckHostsOnly(hosts, ps) == IF hosts = <<>> THEN "warn_hosts" ELSE "worker"

\* MainWindow.start_scan: the checks on the parsed input, then ScanWorker.run,
\* which calls scan(do_tcp=True).  parse_hosts gives a duplicate-free list and
\* parse_ports an ascending duplicate-free one.  The validate_host check is
\* left out: the hosts of the model are valid names.
StartScanCheck(hosts, ps) ==
    IF hosts = <<>> THEN "warn_hosts"
    ELSE IF ps = <<>> THEN "warn_ports"
    ELSE "worker"

start_scan ==
    /\ pc = "idle"
    /\ gui = "none"
    /\ do_tcp
    /\ IsDupFree(targets)
    /\ IsAscending(ports)
    /\ gui' = StartScanCheck(targets, ports)
    /\ IF gui' = "worker"
       THEN ScanEnter
       ELSE UNCHANGED <<inputs, _stop, pc, hi, pi, futs, yielded, cur, total, done,
                        results, summaries, onResultCalls, onProgressCalls, atStop>>

\* Line 47: if self._stop: break
CheckStop ==
    /\ pc = "check_stop"
    /\ IF SubmitBreak(_stop)
       THEN LET n == NextUnit(AfterBreak(hi), 1) IN
            /\ pc' = n.pc
            /\ hi' = n.hi
            /\ pi' = n.pi
       ELSE /\ pc' = "submit"
            /\ UNCHANGED <<hi, pi>>
    /\ UNCHANGED <<inputs, gui, _stop, futs, yielded, cur, total, done, results,
                   summaries, onResultCalls, onProgressCalls, atStop>>

\* Lines 48-49: if do_tcp: futs.append(pool.submit(self._tcp_probe, host, p))
Submit ==
    /\ pc = "submit"
    /\ futs' = IF do_tcp
               THEN Append(futs, [host |-> targets[hi], port |-> ports[pi],
                                  st |-> "queued", out |-> [exc |-> NoException, value |-> <<>>]])
               ELSE futs
    /\ LET n == NextUnit(hi, pi + 1) IN
       /\ pc' = n.pc
       /\ hi' = n.hi
       /\ pi' = n.pi
    /\ UNCHANGED <<inputs, gui, _stop, yielded, cur, total, done, results,
                   summaries, onResultCalls, onProgressCalls, atStop>>

\* A worker thread of the pool takes the oldest queued work item.
WorkerRun ==
    /\ Queued # {}
    /\ Cardinality(Running) < PoolCapacity(max_workers)
    /\ LET k == CHOOSE q \in Queued : \A r \in Queued : q <= r IN
       futs' = [futs EXCEPT ![k].st = "running"]
    /\ UNCHANGED <<inputs, gui, _stop, pc, hi, pi, yielded, cur, total, done, results,
                   summaries, onResultCalls, onProgressCalls, atStop>>

\* A running _tcp_probe ends with one of the connect outcomes outs: the future
\* holds its return value or its exception.
ProbeEnds(outs) ==
    \E k \in Running, conn \in outs :
        /\ futs' = [futs EXCEPT ![k].st = "finished",
                                ![k].out = _tcp_probe(futs[k].host, futs[k].port, conn)]
        /\ UNCHANGED <<inputs, gui, _stop, pc, hi, pi, yielded, cur, total, done, results,
                       summaries, onResultCalls, onProgressCalls, atStop>>

ProbeFinish == ProbeEnds(ScanOutcomes)

\* Line 51: for fut in as_completed(futs): the next finished future, or the end
\* of the loop when every future has been handed out.
AsCompleted ==
    /\ pc = "as_completed"
    /\ IF yielded = 1..Len(futs)
       THEN /\ pc' = "shutdown"
            /\ UNCHANGED <<cur, yielded>>
       ELSE \E k \in Finished \ yielded :
            /\ cur' = k
            /\ yielded' = yielded \cup {k}
            /\ pc' = "drain_check"
    /\ UNCHANGED <<inputs, gui, _stop, hi, pi, futs, total, done, results,
                   summaries, onResultCalls, onProgressCalls, atStop>>

\* Line 52: if self._stop: break
DrainCheck ==
    /\ pc = "drain_check"
    /\ pc' = IF DrainBreak(_stop) THEN "shutdown" ELSE "fut_result"
    /\ UNCHANGED <<inputs, gui, _stop, hi, pi, futs, yielded, cur, total, done, results,
                   summaries, onResultCalls, onProgressCalls, atStop>>

\* Lines 53-57: fut.result(); a raised exception is logged and the loop continues.
FutResult ==
    /\ pc = "fut_result"
    /\ pc' = IF futs[cur].out.exc # NoException THEN AfterFault ELSE "store"
    /\ UNCHANGED <<inputs, gui, _stop, hi, pi, futs, yielded, cur, total, done, results,
                   summaries, onResultCalls, onProgressCalls, atStop>>

\* Line 59
Store ==
    /\ pc = "store"
    /\ LET v == futs[cur].out.value IN
       results' = StoreResult(results, v[1], v[2], v[3])
    /\ pc' = AfterStore
    /\ UNCHANGED <<inputs, gui, _stop, hi, pi, futs, yielded, cur, total, done,
                   summaries, onResultCalls, onProgressCalls, atStop>>

\* Lines 60-61
OnResult ==
    /\ pc = "on_result"
    /\ LET v == futs[cur].out.value IN
       onResultCalls' = Append(onResultCalls,
                               [fut |-> cur, host |-> v[1], port |-> v[2], tcp |-> v[3]])
    /\ pc' = "incr_done"
    /\ UNCHANGED <<inputs, gui, _stop, hi, pi, futs, yielded, cur, total, done, results,
                   summaries, onProgressCalls, atStop>>

NextDoneTwice(d) == d + 2

\* done += 1
NextDone(d) == d + 1

\* Line 63
IncrDone ==
    /\ pc = "incr_done"
    /\ done' = NextDone(done)
    /\ pc' = "on_progress"
    /\ UNCHANGED <<inputs, gui, _stop, hi, pi, futs, yielded, cur, total, results,
                   summaries, onResultCalls, onProgressCalls, atStop>>

\* Lines 64-65
OnProgress ==
    /\ pc = "on_progress"
    /\ onProgressCalls' = Append(onProgressCalls, [done |-> done, total |-> total])
    /\ pc' = "as_completed"
    /\ UNCHANGED <<inputs, gui, _stop, hi, pi, futs, yielded, cur, total, done, results,
                   summaries, onResultCalls, atStop>>

ShutdownNoWait(fin, n) == TRUE

\* pool.shutdown(wait=True) returns once all n submitted work items have run.
ShutdownReturns(fin, n) == fin = 1..n

\* End of the with block: ThreadPoolExecutor.__exit__ calls shutdown(wait=True).
Shutdown ==
    /\ pc = "shutdown"
    /\ ShutdownReturns(Finished, Len(futs))
    /\ pc' = "summary"
    /\ UNCHANGED <<inputs, gui, _stop, hi, pi, futs, yielded, cur, total, done, results,
                   summaries, onResultCalls, onProgressCalls, atStop>>

\* Lines 68-78: the summaries and the return of the Result Document.
Return ==
    /\ pc = "summary"
    /\ summaries' = Summaries(results)
    /\ pc' = "returned"
    /\ UNCHANGED <<inputs, gui, _stop, hi, pi, futs, yielded, cur, total, done, results,
                   onResultCalls, onProgressCalls, atStop>>

ScanStep ==
    \/ CheckStop \/ Submit \/ AsCompleted \/ DrainCheck \/ FutResult
    \/ Store \/ OnResult \/ IncrDone \/ OnProgress \/ Shutdown \/ Return

Next ==
    \/ scan \/ start_scan \/ stop
    \/ CheckStop \/ Submit \/ WorkerRun \/ ProbeFinish
    \/ AsCompleted \/ DrainCheck \/ FutResult \/ Store \/ OnResult
    \/ IncrDone \/ OnProgress \/ Shutdown \/ Return

Spec == Init /\ [][Next]_vars

\* The scanning thread and the workers of the pool are scheduled fairly and a
\* started connect ends (it is bounded by the timeout); nothing obliges anyone
\* to call stop().
FairSpec == Spec /\ WF_vars(ScanStep) /\ WF_vars(WorkerRun) /\ WF_vars(ProbeFinish)


\* ------------------------------------------- the summary of one host alone
\* The state in which scan() reaches line 68 after an uncancelled scan of one
\* host over the ports 1..n whose completions arrived in port order: the first
\* f ports timed out, the others are open.
ScannedHost(n, f) ==
    LET h == HostNames[1]
        out(i) == _tcp_probe(h, i, IF i <= f THEN "timeout" ELSE "connected")
        stored[k \in 0..n] ==
            IF k = 0 THEN InitResults(<<h>>)
            ELSE StoreResult(stored[k - 1], out(k).value[1], out(k).value[2], out(k).value[3])
    IN  [futs |-> [i \in 1..n |-> [host |-> h, port |-> i, st |-> "finished", out |-> out(i)]],
         results |-> stored[n],
         onResultCalls |-> [i \in 1..n |-> [fut |-> i, host |-> h, port |-> i,
                                             tcp |-> out(i).value[3]]],
         onProgressCalls |-> [i \in 1..n |-> [done |-> i, total |-> Max(1, n)]]]

SummaryInit ==
    \E n \in 0..MaxSummaryPorts : \E f \in 0..n :
        LET s == ScannedHost(n, f) IN
        /\ targets = <<HostNames[1]>>
        /\ ports = [i \in 1..n |-> i]
        /\ do_tcp = TRUE
        /\ max_workers = 1
        /\ gui = "none"
        /\ _stop = FALSE
        /\ pc = "summary"
        /\ hi = 2
        /\ pi = 1
        /\ futs = s.futs
        /\ yielded = 1..n
        /\ cur = n
        /\ total = Total(targets, ports)
        /\ done = n
        /\ results = s.results
        /\ summaries = <<>>
        /\ onResultCalls = s.onResultCalls
        /\ onProgressCalls = s.onProgressCalls
        /\ atStop = NoSnapshot

SummarySpec == SummaryInit /\ [][Return]_vars

\* ------------------------------------------------------ one probe alone
ProbePorts == {1, 22, 80, 443, 65535}

\* The state of a scan of one host and one port whose probe is running and
\* whose scanning thread waits in as_completed.
ProbeInit ==
    \E h \in SeqRange(HostNames), p \in ProbePorts :
        /\ targets = <<h>>
        /\ ports = <<p>>
        /\ do_tcp = TRUE
        /\ max_workers = 1
        /\ gui = "none"
        /\ _stop = FALSE
        /\ pc = "as_completed"
        /\ hi = 2
        /\ pi = 1
        /\ futs = <<[host |-> h, port |-> p, st |-> "running",
                     out |-> [exc |-> NoException, value |-> <<>>]]>>
        /\ yielded = {}
        /\ cur = 0
        /\ total = Total(targets, ports)
        /\ done = 0
        /\ results = InitResults(targets)
        /\ summaries = <<>>
        /\ onResultCalls = <<>>
        /\ onProgressCalls = <<>>
        /\ atStop = NoSnapshot

\* The probe ends in any of the ways socket.create_connection can end.
ProbeFinishAny == ProbeEnds(ConnectOutcomes)

ProbeSpec == ProbeInit /\ [][ProbeFinishAny]_vars

\* ============================================================== claims
Units == Len(targets) * Len(ports)
Faulted == {k \in Finished : futs[k].out.exc # NoException}
Reported == {onResultCalls[i].fut : i \in 1..Len(onResultCalls)}
HasEntry(h, p) ==
    \E i \in 1..Len(results) :
        results[i].key = h /\ \E j \in 1..Len(results[i].val) : results[i].val[j].key = p
Recording == {"store", "on_result", "incr_done", "on_progress"}
BetweenCompletions == pc \in {"as_completed", "drain_check", "fut_result", "shutdown", "summary", "returned"}
Bump(cond) == IF cond THEN 1 ELSE 0

\* C1: at no moment of a scan do more than max_workers probes execute at once,
\* however many units were submitted.
C1_ConcurrencyBound == Cardinality(Running) <= max_workers

C1_Witness == Cardinality(Running) = max_workers /\ Queued # {} /\ Len(futs) > max_workers

\* C2: a started scan always reaches its return, also when stop() is called
\* before or during it (fair scheduling, every started probe ends).
C2_ScanReturns == (pc # "idle") ~> (pc = "returned")

C2_Witness ==
    /\ pc = "returned"
    /\ atStop.taken
    /\ atStop.pc \notin {"idle", "returned"}
    /\ yielded # 1..Len(futs)

\* C3: without stop(), for non-empty duplicate-free inputs, the scan ends with
\* done = total = |targets| x |ports|, the last on_progress call reports it, and
\* every target has |ports| entries less the units lost to worker faults.
C3_CompleteScan ==
    (/\ pc = "returned"
     /\ ~_stop
     /\ do_tcp
     /\ targets # <<>>
     /\ ports # <<>>
     /\ IsDupFree(targets)
     /\ IsDupFree(ports))
    => /\ total = Units
       /\ done = total
       /\ onProgressCalls # <<>>
       /\ onProgressCalls[Len(onProgressCalls)].done = total
       /\ \A i \in 1..Len(targets) :
             Len(DictGet(results, targets[i])) =
                 Len(ports) - Cardinality({k \in Faulted : futs[k].host = targets[i]})

\* C4: the values of done passed to on_progress never decrease, and done never
\* exceeds total = max(1, |targets| x |ports|).
C4_ProgressMonotone ==
    /\ done <= Max(1, Units)
    /\ pc # "idle" => total = Max(1, Units)
    /\ \A i \in 1..Len(onProgressCalls) :
          /\ onProgressCalls[i].total = Max(1, Units)
          /\ onProgressCalls[i].done <= onProgressCalls[i].total
          /\ \A j \in 1..Len(onProgressCalls) :
                i < j => onProgressCalls[i].done <= onProgressCalls[j].done

C4_Witness ==
    /\ pc = "returned"
    /\ Len(onProgressCalls) >= 2
    /\ done = total
    /\ total = Units
    /\ Units >= 3

C6_NoStoreWhileStopped == [][(_stop /\ pc = "store") => results' = results]_vars

\* C6 (amended): a completion is discarded when the flag is set at the loop's
\* check (line 52), and the loop then ends; a stop() that comes after the check
\* leaves the completion in progress to be stored, reported and counted, so
\* after stop() at most that one completion is recorded.
C6_DiscardAtCheck ==
    atStop.taken =>
       /\ Entries(results) <= atStop.stored + Bump(atStop.pc \in {"fut_result", "store"})
       /\ Len(onResultCalls) <=
             atStop.results + Bump(atStop.pc \in {"fut_result", "store", "on_result"})
       /\ done <= atStop.done + Bump(atStop.pc \in {"fut_result", "store", "on_result", "incr_done"})
       /\ Len(onProgressCalls) <=
             atStop.progress
             + Bump(atStop.pc \in {"fut_result", "store", "on_result", "incr_done", "on_progress"})

C6_Witness ==
    /\ pc = "returned"
    /\ atStop.taken
    /\ atStop.pc = "drain_check"
    /\ cur \in Finished \ Faulted
    /\ cur \notin Reported
    /\ ~HasEntry(futs[cur].host, futs[cur].port)
    /\ done = atStop.done
    /\ Len(futs) >= 2

\* C7: on_result is called exactly once for every unit stored in results, never
\* for a discarded or faulted unit, and each on_result call is followed by one
\* on_progress call before the next completion is handled.
C7_CallbackPairing ==
    LET faulted == Faulted
        reported == Reported
        stored == {k \in 1..Len(futs) : HasEntry(futs[k].host, futs[k].port)}
    IN
    /\ \A i, j \in 1..Len(onResultCalls) :
          i # j => onResultCalls[i].fut # onResultCalls[j].fut
    /\ \A i \in 1..Len(onResultCalls) :
          LET c == onResultCalls[i] IN
          /\ c.fut \in yielded \ faulted
          /\ futs[c.fut].out.value = <<c.host, c.port, c.tcp>>
          /\ c.fut \in stored
    /\ Len(onProgressCalls) <= Len(onResultCalls)
    /\ Len(onResultCalls) <= Len(onProgressCalls) + 1
    /\ BetweenCompletions =>
          /\ Len(onProgressCalls) = Len(onResultCalls)
          /\ \A k \in stored :
                \E r \in reported : futs[r].host = futs[k].host /\ futs[r].port = futs[k].port
          /\ (IsDupFree(targets) /\ IsDupFree(ports)) => reported = stored

C7_Witness ==
    /\ pc = "returned"
    /\ Len(onResultCalls) = 2
    /\ Len(onProgressCalls) = 2
    /\ Faulted \cap yielded # {}
    /\ _stop
    /\ yielded \ (Reported \cup Faulted) # {}

\* C8: _tcp_probe never raises: every finished probe holds a Probe Result whose
\* state is one of open, closed, filtered, error.
C8_ProbeNeverRaises ==
    \A k \in Finished :
        /\ futs[k].out.exc = NoException
        /\ futs[k].out.value[3].state \in {"open", "closed", "filtered", "error"}

\* C9: a unit whose execution raised is a non-result (no entry, no count, no
\* callback) and does not end the scan: the other units are still drained and
\* recorded.
C9_FaultIsNonResult ==
    LET faulted == Faulted IN
    /\ pc \in Recording => cur \notin faulted
    /\ faulted \cap Reported = {}
    /\ (IsDupFree(targets) /\ IsDupFree(ports)) =>
          \A k \in faulted : ~HasEntry(futs[k].host, futs[k].port)
    /\ (pc = "returned" /\ ~_stop) =>
          /\ Reported = (1..Len(futs)) \ faulted
          /\ done = Len(futs) - Cardinality(faulted)
          /\ Len(onProgressCalls) = done
          /\ \A k \in (1..Len(futs)) \ faulted : HasEntry(futs[k].host, futs[k].port)

C9_Witness ==
    /\ pc = "returned"
    /\ ~_stop
    /\ Len(futs) >= 3
    /\ Cardinality(Faulted) = 1
    /\ done = Len(futs) - 1
    /\ Entries(results) = done

\* C10 (as stated): a call of scan with an empty target or port list is
\* rejected: nothing is submitted and no Result Document is produced.
C10_EmptyInputRejected ==
    (targets = <<>> \/ ports = <<>>) => (futs = <<>> /\ pc # "returned")

\* C10 (amended): scan itself does not reject empty lists: it submits nothing,
\* calls no callback and returns a Result Document without probe entries.  The
\* rejection is start_scan's, which warns and never calls scan with an empty
\* list.
C10_EmptyInputHandled ==
    /\ gui = "warn_hosts" => (targets = <<>> /\ pc = "idle")
    /\ gui = "warn_ports" => (ports = <<>> /\ pc = "idle")
    /\ gui = "worker" => (targets # <<>> /\ ports # <<>>)
    /\ (targets = <<>> \/ ports = <<>>) =>
          /\ futs = <<>>
          /\ done = 0
          /\ onResultCalls = <<>>
          /\ onProgressCalls = <<>>
          /\ Entries(results) = 0
          /\ pc \in {"idle", "as_completed", "shutdown", "summary", "returned"}
          /\ pc = "returned" =>
                /\ Len(summaries) = Len(results)
                /\ \A i \in 1..Len(summaries) :
                      summaries[i].open_tcp = <<>> /\ summaries[i].warnings = <<>>

C10_Witness ==
    /\ pc = "returned"
    /\ gui = "none"
    /\ targets # <<>>
    /\ ports = <<>>
    /\ Len(summaries) = Len(targets)

\* C11: in the returned document every summary lists open_tcp in ascending port
\* order, whatever the order in which the completions of the host arrived.
C11_OpenTcpAscending ==
    (pc = "returned" /\ IsAscending(ports)) =>
        \A i \in 1..Len(summaries) : IsAscending(summaries[i].open_tcp)

PortsMapOf(i) == results[i].val
FilteredCount(i) ==
    Cardinality({j \in 1..Len(PortsMapOf(i)) : TcpState(PortsMapOf(i)[j].val) = "filtered"})

\* C12 (as stated): a host with n recorded ports, f of them filtered, gets the
\* firewall advisory exactly when f >= max(5, ceil(0.5 n)), and at most one.
C12_WarnAtCeilHalf ==
    pc = "returned" =>
        \A i \in 1..Len(summaries) :
            summaries[i].warnings =
                IF FilteredCount(i) >= 5 /\ 2 * FilteredCount(i) >= Len(PortsMapOf(i))
                THEN <<Advisory>> ELSE <<>>

\* C12 (amended): the advisory is given exactly when f >= max(5, floor(0.5 n)),
\* and at most one per host; n = 10, f = 5 gives it and n = 10, f = 4 does not.
C12_WarnAtFloorHalf ==
    pc = "returned" =>
        \A i \in 1..Len(summaries) :
            summaries[i].warnings =
                IF FilteredCount(i) >= 5 /\ 2 * FilteredCount(i) + 1 >= Len(PortsMapOf(i))
                THEN <<Advisory>> ELSE <<>>

C12_Witness ==
    /\ pc = "returned"
    /\ Len(summaries) = 1
    /\ Len(PortsMapOf(1)) = 10
    /\ FilteredCount(1) = 5
    /\ summaries[1].warnings = <<Advisory>>

\* C13: a fresh orchestrator has the stop flag clear; stop() sets it; a further
\* stop() changes nothing; and no step of the orchestrator, the start and the
\* end of scan() included, clears the flag again.
C13_StopIsTerminal ==
    /\ ~_stop
    /\ [][/\ stop => _stop'
          /\ _stop => _stop'
          /\ (_stop /\ atStop.taken /\ stop) => UNCHANGED vars]_vars

C13_Witness ==
    /\ pc = "returned"
    /\ _stop
    /\ atStop.taken
    /\ atStop.pc = "idle"
    /\ total >= 2

\* stop() ran before any completion was recorded (also before scan() started).
EarlyStop == atStop.taken /\ atStop.stored = 0

\* C14: when stop() is called before any completion has been processed, the
\* returned results hold no probe entry, or only entries of units that had
\* already been submitted when stop() was called, and scan() still returns.
C14_EarlyStop ==
    /\ [](EarlyStop =>
            /\ Reported \subseteq 1..atStop.futs
            /\ Entries(results) <= 1
            /\ \A i \in 1..Len(results) : \A j \in 1..Len(results[i].val) :
                  \E k \in 1..atStop.futs :
                      futs[k].host = results[i].key /\ futs[k].port = results[i].val[j].key)
    /\ ((EarlyStop /\ pc # "idle") ~> (pc = "returned"))

C14_Witness ==
    /\ pc = "returned"
    /\ EarlyStop
    /\ atStop.pc \in {"fut_result", "store"}
    /\ Entries(results) = 1
    /\ Len(futs) >= 2

\* C15: every Probe Result returned by _tcp_probe has a state among open,
\* closed, filtered, error, and its error string is non-empty exactly when the
\* state is error, also for an OS failure whose message is empty.
C15_ErrorIffErrorState ==
    \A k \in Finished :
        futs[k].out.exc = NoException =>
            LET info == futs[k].out.value[3] IN
            /\ info.state \in {"open", "closed", "filtered", "error"}
            /\ (info.error # "") <=> (info.state = "error")

\* C16: when scan() returns, every submitted unit has finished executing (none
\* queued or running), also when cancellation ended the draining loop early.
C16_AllReapedAtReturn ==
    pc \in {"summary", "returned"} => (Running = {} /\ Queued = {} /\ Finished = 1..Len(futs))

C16_Witness ==
    /\ pc = "returned"
    /\ _stop
    /\ Len(futs) = Units
    /\ Units >= 3
    /\ Cardinality(yielded) = 1
    /\ Reported = {}
    /\ Finished = 1..Len(futs)

OpenPortsOf(i) ==
    {PortsMapOf(i)[j].key : j \in {n \in 1..Len(PortsMapOf(i)) :
                                     TcpState(PortsMapOf(i)[n].val) = "open"}}

\* C17: in the returned document, the ports of each host's open_tcp are exactly
\* the ports stored as open in results[host], also after a cancelled run: the
\* units that finish after the loop was left are in neither.
C17_SummaryMatchesResults ==
    pc = "returned" =>
        /\ Len(summaries) = Len(results)
        /\ \A i \in 1..Len(summaries) :
              /\ summaries[i].host = results[i].key
              /\ SeqRange(summaries[i].open_tcp) = OpenPortsOf(i)
              /\ IsDupFree(summaries[i].open_tcp)
        /\ \A i \in 1..Len(results) : \A j \in 1..Len(PortsMapOf(i)) :
              \E c \in 1..Len(onResultCalls) :
                  /\ onResultCalls[c].host = results[i].key
                  /\ onResultCalls[c].port = PortsMapOf(i)[j].key
                  /\ PortsMapOf(i)[j].val = <<[key |-> "tcp", val |-> onResultCalls[c].tcp]>>

C17_Witness ==
    /\ pc = "returned"
    /\ _stop
    /\ \E i \in 1..Len(summaries) : summaries[i].open_tcp # <<>>
    /\ \E k \in Finished \ (Reported \cup Faulted) :
          /\ futs[k].out.value[3].state = "open"
          /\ ~HasEntry(futs[k].host, futs[k].port)
    /\ \E k \in Reported : futs[k].out.value[3].state = "filtered"

\* The distinct elements of s in the order of their first occurrence.
DistinctInOrder(s) ==
    LET firsts == {i \in 1..Len(s) : \A j \in 1..(i - 1) : s[j] # s[i]}
        rank(i) == Cardinality({j \in firsts : j <= i})
    IN  [n \in 1..Cardinality(firsts) |-> s[CHOOSE i \in firsts : rank(i) = n]]

\* C18: from the start of scan(), results has a key for every input target, so
\* the returned document has one summary per distinct target in input order,
\* also for a target without any completed probe, whose port map and open_tcp
\* are empty and which has no warning.
C18_EveryTargetKeyed ==
    /\ pc # "idle" =>
          [i \in 1..Len(results) |-> results[i].key] = DistinctInOrder(targets)
    /\ pc = "returned" =>
          /\ [i \in 1..Len(summaries) |-> summaries[i].host] = DistinctInOrder(targets)
          /\ \A i \in 1..Len(summaries) :
                (\A k \in Reported : futs[k].host # summaries[i].host) =>
                    /\ results[i].val = <<>>
                    /\ summaries[i].open_tcp = <<>>
                    /\ summaries[i].warnings = <<>>

C18_Witness ==
    /\ pc = "returned"
    /\ Len(targets) = 2
    /\ Len(summaries) = 2
    /\ results[1].val = <<>>
    /\ results[2].val # <<>>
    /\ Faulted # {}

UnitOf(f) == <<f.host, f.port>>
EntryIn(res, h, p) == h \in DictKeys(res) /\ p \in DictKeys(DictGet(res, h))

\* C19: within one scan a unit is submitted at most once and never again, also
\* after an error result or a worker fault; so, for duplicate-free inputs, an
\* entry of results is written once and is never removed or overwritten.
C19_SubmittedOnceWrittenOnce ==
    [][/\ futs' # futs =>
             /\ Len(futs') \in {Len(futs), Len(futs) + 1}
             /\ \A k \in 1..Len(futs) : UnitOf(futs'[k]) = UnitOf(futs[k])
             /\ Len(futs') <= Len(targets) * Len(ports)
             /\ (IsDupFree(targets) /\ IsDupFree(ports)) =>
                   \A k, m \in 1..Len(futs') : k # m => UnitOf(futs'[k]) # UnitOf(futs'[m])
       /\ (results' # results /\ IsDupFree(targets) /\ IsDupFree(ports)) =>
             \A i \in 1..Len(results) : \A j \in 1..Len(results[i].val) :
                 LET h == results[i].key
                     p == results[i].val[j].key
                 IN  /\ EntryIn(results', h, p)
                     /\ DictGet(DictGet(results', h), p) = results[i].val[j].val]_vars

C19_Witness ==
    /\ pc = "returned"
    /\ IsDupFree(targets)
    /\ IsDupFree(ports)
    /\ Len(futs) = Units
    /\ Units >= 3
    /\ Cardinality(Faulted) = 1
    /\ Entries(results) = Units - 1
    /\ \E k \in Reported : futs[k].out.value[3].state = "filtered"

\* C20: for duplicate-free inputs, between two completions and at return, done
\* is the number of entries of results and the number of on_result calls; within
\* a completion the result is stored before on_result is called and done is
\* incremented before on_progress is called.
C20_Accounting ==
    (pc # "idle" /\ IsDupFree(targets) /\ IsDupFree(ports)) =>
        /\ BetweenCompletions =>
              /\ done = Entries(results)
              /\ done = Len(onResultCalls)
              /\ done = Len(onProgressCalls)
        /\ pc = "store" =>
              /\ Entries(results) = done
              /\ Len(onResultCalls) = done
        /\ pc = "on_result" =>
              /\ Entries(results) = done + 1
              /\ Len(onResultCalls) = done
              /\ HasEntry(futs[cur].host, futs[cur].port)
        /\ pc = "incr_done" =>
              /\ Len(onResultCalls) = done + 1
              /\ Len(onProgressCalls) = done
        /\ pc = "on_progress" =>
              /\ Len(onResultCalls) = done
              /\ Len(onProgressCalls) = done - 1
        /\ \A i \in 1..Len(onProgressCalls) : onProgressCalls[i].done = i

C20_Witness ==
    /\ pc = "on_progress"
    /\ IsDupFree(targets)
    /\ IsDupFree(ports)
    /\ done = 2
    /\ Entries(results) = 2
    /\ Len(onProgressCalls) = 1
    /\ Faulted \cap yielded # {}

====
